---- MODULE Spec2Model ----
(***************************************************************************)
(* PlagiFree AI backend (backend/server.py): the entitlement ledger        *)
(* (daily quota, purchased credits, daily reset), the rewrite orchestrator *)
(* and the payment-status crediting, as request handlers running as        *)
(* concurrent asyncio tasks over a shared document store.                  *)
(*                                                                         *)
(* One action is one atomic segment of a handler: the code between two     *)
(* awaits together with the store operation (or collaborator answer) that  *)
(* the first await delivers.                                               *)
(***************************************************************************)
EXTENDS Integers, Sequences, FiniteSets, TLC

\* ------------------------------------------------------------------ bounds
\* Requests issued in one behaviour; request t is task t.
MaxRequests == 2
\* Accounts the store can hold (the initial account included).
MaxUsers == 2
\* Checkout sessions the payment collaborator hands out (the initial
\* account's pending one included).
MaxTx == 2
\* The clock: microseconds per second, seconds per day, and the ticks it
\* advances in one behaviour.
UsecPerSec == 2
SecPerDay == 2
MaxTicks == 3
\* Initial account: quota still unused is at most MaxInitLeft, credits at
\* most MaxInitCredits.
MaxInitLeft == 1
MaxInitCredits == 2
\* Whole days the clock of SpecClock can run past the initial reset_date.
ClockDays == 2
\* Characters in a text handed to the scorer and the sentence diff.
MaxTextLen == 3
\* SpecHistory: history documents an account owns beyond the listing's limit,
\* and documents another account owns.
MaxExtra == 2
MaxOthers == 2

\* ------------------------------------------------------- program constants
DailyLimit == 10
PackageCredits == 20
HttpOk == 200
HttpBadRequest == 400
HttpUnauthorized == 401
HttpNotFound == 404
HttpTooManyRequests == 429
HttpServerError == 500
\* Percentages run from 0 to Percent; round(x, 1) keeps tenths of a percent.
Percent == 100
Tenths == 10
\* get_history(): .limit(50).to_list(50)
HistoryLimit == 50

\* Faulty variant: a mode outside the documented set is let through.
ValidModes_Lax == {"light", "standard", "aggressive", "human-like", "extreme"}

ValidModes == {"light", "standard", "aggressive", "human-like"}
ValidTones == {"academic", "professional", "casual", "creative", "formal"}
\* Request inputs: every allowed value and one that is not allowed.
ModeInputs == ValidModes \cup {"extreme"}
ToneInputs == ValidTones \cup {"sarcastic"}
CreditPackages == {"extra_20"}
PackageInputs == CreditPackages \cup {"extra_99"}
\* What the payment collaborator may report for a session.
StripeStatuses == {"paid", "unpaid"}
Emails == {"a@x", "b@x"}

Tasks == 1..MaxRequests
UserIds == 1..MaxUsers
SessionIds == 1..MaxTx

\* -------------------------------------------------------------------- time
DayLen == SecPerDay * UsecPerSec
MaxTime == DayLen - 1 + MaxTicks

\* datetime.isoformat(): the instant as its calendar fields.
IsoFormat(t) ==
    [day |-> t \div DayLen, sec |-> (t % DayLen) \div UsecPerSec, usec |-> t % UsecPerSec]

\* datetime.fromisoformat(): the instant the fields denote.
FromIsoFormat(s) == s.day * DayLen + s.sec * UsecPerSec + s.usec

\* Faulty variant: the day is not advanced, so the date is not after now.
NextResetDate_Today(t) == IsoFormat((t \div DayLen) * DayLen + (t % UsecPerSec))

\* (now + timedelta(days=1)).replace(hour=0, minute=0, second=0): the
\* microsecond field of now is kept.
NextResetDate(t) ==
    IsoFormat(((t + DayLen) \div DayLen) * DayLen + ((t + DayLen) % UsecPerSec))

NoDate == [day |-> 0, sec |-> 0, usec |-> 0]

\* ------------------------------------------------------------------- state
VARIABLES
    now,          \* datetime.now(timezone.utc), in microsecond ticks
    users,        \* db.users: sequence of account documents
    history,      \* db.rewrite_history: sequence of history documents
    txs,          \* db.payment_transactions: sequence of transaction documents
    tasks,        \* per request: position in its handler and its locals
    resp,         \* the response most recently returned to a client
    nextUserId,   \* uuid4() values handed out as account ids
    nextSession,  \* session ids handed out by the payment collaborator
    engineCalls,  \* history variable: calls made to the rewriting engine
    okRewrites,   \* history variable: per account, rewrites that returned a result
    credited,     \* history variable: per session, credits added on its behalf
    replenished,  \* history variable: per account, a reset or top-up was applied
    users0,       \* history variable: db.users in the initial state
    analysis,     \* the texts of a rewrite and what the scorer and the diff made of them
    listing       \* the documents a get_history() call returned

vars == <<now, users, history, txs, tasks, resp, nextUserId, nextSession,
          engineCalls, okRewrites, credited, replenished, users0, analysis, listing>>

NoUser ==
    [id |-> 0, email |-> "", daily_limit |-> 0, rewrites_today |-> 0, credits |-> 0,
     reset_date |-> NoDate, is_admin |-> FALSE]

NoTx == [session_id |-> 0, user_id |-> 0, credits |-> 0, payment_status |-> ""]

\* A request not yet issued.
NewTask ==
    [pc |-> "new", cur |-> NoUser, email |-> "", tx |-> NoTx, status |-> "",
     reset_date |-> NoDate, is_admin |-> FALSE, timestamp |-> 0]

\* A request whose response has been returned.
DoneTask == [NewTask EXCEPT !.pc = "done"]

NoResp ==
    [kind |-> "", code |-> 0, user |-> 0, rewrites_today |-> 0, remaining |-> 0,
     credits |-> 0, reset_date |-> NoDate, credits_added |-> 0, status |-> ""]

Response(kind, code, user) == [NoResp EXCEPT !.kind = kind, !.code = code, !.user = user]

\* ------------------------------------------------------------------- store
\* db.users.find_one({"id": id}): the first matching document, else none.
FindUser(us, id) ==
    IF \E i \in 1..Len(us) : us[i].id = id
    THEN us[CHOOSE i \in 1..Len(us) : us[i].id = id /\ \A j \in 1..(i - 1) : us[j].id # id]
    ELSE NoUser

\* db.users.find_one({"email": email})
FindUserByEmail(us, email) ==
    IF \E i \in 1..Len(us) : us[i].email = email
    THEN us[CHOOSE i \in 1..Len(us) :
                us[i].email = email /\ \A j \in 1..(i - 1) : us[j].email # email]
    ELSE NoUser

\* db.users.update_one({"id": id}, {"$inc": {"rewrites_today": 1}})
IncRewritesToday(us, id) ==
    [i \in 1..Len(us) |->
        IF us[i].id = id /\ \A j \in 1..(i - 1) : us[j].id # id
        THEN [us[i] EXCEPT !.rewrites_today = @ + 1]
        ELSE us[i]]

\* db.users.update_one({"id": id}, {"$inc": {"credits": n}})
IncCredits(us, id, n) ==
    [i \in 1..Len(us) |->
        IF us[i].id = id /\ \A j \in 1..(i - 1) : us[j].id # id
        THEN [us[i] EXCEPT !.credits = @ + n]
        ELSE us[i]]

\* Faulty variant: the reset stores the new date and leaves the count.
SetReset_DateOnly(us, id, d) ==
    [i \in 1..Len(us) |->
        IF us[i].id = id /\ \A j \in 1..(i - 1) : us[j].id # id
        THEN [us[i] EXCEPT !.reset_date = d]
        ELSE us[i]]

\* db.users.update_one({"id": id}, {"$set": {"rewrites_today": 0, "reset_date": d}})
SetReset(us, id, d) ==
    [i \in 1..Len(us) |->
        IF us[i].id = id /\ \A j \in 1..(i - 1) : us[j].id # id
        THEN [us[i] EXCEPT !.rewrites_today = 0, !.reset_date = d]
        ELSE us[i]]

\* ------------------------------------------------------------------ ledger
\* Faulty variant: the purchased credits are left out of the availability.
TotalAvailable_QuotaOnly(u) == u.daily_limit - u.rewrites_today

\* Faulty variant: the availability is one too high (a check of < 0 for <= 0).
TotalAvailable_OffByOne(u) == (u.daily_limit - u.rewrites_today) + u.credits + 1

\* rewrite(): total_available
TotalAvailable(u) == (u.daily_limit - u.rewrites_today) + u.credits

\* Faulty variant: the quota bucket is debited once more when it is full.
DebitsQuota_Inclusive(cur) == cur.rewrites_today <= cur.daily_limit

\* rewrite(): the bucket the debit is taken from, decided on current_user
DebitsQuota(cur) == cur.rewrites_today < cur.daily_limit

\* Faulty variant: the purchased credits are consumed before the quota.
Debit_CreditsFirst(us, cur) ==
    IF cur.credits > 0 THEN IncCredits(us, cur.id, -1) ELSE IncRewritesToday(us, cur.id)

\* Faulty variant: the debit re-validates against the stored account and
\* takes nothing when nothing is left.
Debit_Floored(us, cur) ==
    LET u == FindUser(us, cur.id) IN
    IF u.rewrites_today < u.daily_limit THEN IncRewritesToday(us, cur.id)
    ELSE IF u.credits > 0 THEN IncCredits(us, cur.id, -1)
    ELSE us

\* Faulty variant: the debit stores a value computed from the copy of the
\* account read at the start, so one of two overlapping debits is lost.
Debit_FromCopy(us, cur) ==
    [i \in 1..Len(us) |->
        IF us[i].id = cur.id /\ \A j \in 1..(i - 1) : us[j].id # cur.id
        THEN IF DebitsQuota(cur)
             THEN [us[i] EXCEPT !.rewrites_today = cur.rewrites_today + 1]
             ELSE [us[i] EXCEPT !.credits = cur.credits - 1]
        ELSE us[i]]

\* rewrite(): the debit
Debit(us, cur) ==
    IF DebitsQuota(cur) THEN IncRewritesToday(us, cur.id) ELSE IncCredits(us, cur.id, -1)

\* login(), get_usage(): the reset is due
ResetDue(u, t) == t >= FromIsoFormat(u.reset_date)

\* No text has been analysed.
NoAnalysis ==
    [pc |-> "none", original |-> <<>>, rewritten |-> <<>>, plagiarism |-> 0,
     changes |-> <<>>]

\* ----------------------------------------------------------------- helpers
Max(a, b) == IF a >= b THEN a ELSE b

Min(a, b) == IF a <= b THEN a ELSE b

\* Requests are issued in order of their number.
CanIssue(t) == tasks[t].pc = "new" /\ \A o \in 1..(t - 1) : tasks[o].pc # "new"

Registered(id) == \E i \in 1..Len(users) : users[i].id = id

\* History documents owned by account id.
HistoryOf(id) == {i \in 1..Len(history) : history[i].user_id = id}

Finish(t, r) ==
    /\ tasks' = [tasks EXCEPT ![t] = DoneTask]
    /\ resp' = r

\* ------------------------------------------------------------------- Init
\* The store holds one account, registered at time 0 (so the first account,
\* and the admin), in a ledger state that sequential use reaches, and one
\* checkout session that account has opened and not yet asked about; the
\* clock stands one tick before that account's reset_date, or on it.
InitAccount(used, credits) ==
    [id |-> 1, email |-> "a@x", daily_limit |-> DailyLimit, rewrites_today |-> used,
     credits |-> credits, reset_date |-> NextResetDate(0), is_admin |-> TRUE]

InitTx ==
    [session_id |-> 1, user_id |-> 1, credits |-> PackageCredits,
     payment_status |-> "pending"]

Init ==
    /\ now \in {DayLen - 1, DayLen}
    /\ \E used \in (DailyLimit - MaxInitLeft)..DailyLimit, c \in 0..MaxInitCredits :
          users = <<InitAccount(used, c)>>
    /\ users0 = users
    /\ history = <<>>
    /\ txs = <<InitTx>>
    /\ tasks = [t \in Tasks |-> NewTask]
    /\ resp = NoResp
    /\ nextUserId = 2
    /\ nextSession = 2
    /\ engineCalls = 0
    /\ okRewrites = [u \in UserIds |-> 0]
    /\ credited = [s \in SessionIds |-> 0]
    /\ replenished = [u \in UserIds |-> FALSE]
    /\ analysis = NoAnalysis
    /\ listing = <<>>

\* ------------------------------------------------------------------ clock
Tick ==
    /\ now < MaxTime
    /\ now' = now + 1
    /\ UNCHANGED <<users, history, txs, tasks, resp, nextUserId, nextSession,
                   engineCalls, okRewrites, credited, replenished, users0, analysis, listing>>

\* ---------------------------------------------------------------- rewrite
\* get_current_user() reads the account; rewrite() checks availability and
\* the inputs, and calls the rewriting engine.
RewriteBegin(t, id, mode, tone) ==
    /\ CanIssue(t)
    /\ Registered(id)
    /\ LET cur == FindUser(users, id) IN
          IF TotalAvailable(cur) <= 0
          THEN /\ Finish(t, Response("rewrite", HttpTooManyRequests, id))
               /\ UNCHANGED engineCalls
          ELSE IF mode \notin ValidModes \/ tone \notin ValidTones
          THEN /\ Finish(t, Response("rewrite", HttpBadRequest, id))
               /\ UNCHANGED engineCalls
          ELSE /\ tasks' = [tasks EXCEPT ![t] = [NewTask EXCEPT !.pc = "ai", !.cur = cur]]
               /\ engineCalls' = engineCalls + 1
               /\ UNCHANGED resp
    /\ UNCHANGED <<now, users, history, txs, nextUserId, nextSession,
                   okRewrites, credited, replenished, users0, analysis, listing>>

\* rewrite_text_with_ai() returns; the history document is built.
RewriteEngineOk(t) ==
    /\ tasks[t].pc = "ai"
    /\ tasks' = [tasks EXCEPT ![t].pc = "insert", ![t].timestamp = now]
    /\ UNCHANGED <<now, users, history, txs, resp, nextUserId, nextSession,
                   engineCalls, okRewrites, credited, replenished, users0, analysis, listing>>

\* Faulty variant: the debit is taken although the engine failed.
RewriteEngineFail_Debits(t) ==
    /\ tasks[t].pc = "ai"
    /\ users' = Debit(users, tasks[t].cur)
    /\ Finish(t, Response("rewrite", HttpServerError, tasks[t].cur.id))
    /\ UNCHANGED <<now, history, txs, nextUserId, nextSession,
                   engineCalls, okRewrites, credited, replenished, users0, analysis, listing>>

\* Faulty variant: a history document is stored although the engine failed.
RewriteEngineFail_Records(t) ==
    /\ tasks[t].pc = "ai"
    /\ history' = Append(history, [user_id |-> tasks[t].cur.id, timestamp |-> now])
    /\ Finish(t, Response("rewrite", HttpServerError, tasks[t].cur.id))
    /\ UNCHANGED <<now, users, txs, nextUserId, nextSession,
                   engineCalls, okRewrites, credited, replenished, users0, analysis, listing>>

\* rewrite_text_with_ai() raises HTTPException(500).
RewriteEngineFail(t) ==
    /\ tasks[t].pc = "ai"
    /\ Finish(t, Response("rewrite", HttpServerError, tasks[t].cur.id))
    /\ UNCHANGED <<now, users, history, txs, nextUserId, nextSession,
                   engineCalls, okRewrites, credited, replenished, users0, analysis, listing>>

\* db.rewrite_history.insert_one(history_doc)
RewriteInsert(t) ==
    /\ tasks[t].pc = "insert"
    /\ history' = Append(history,
                         [user_id |-> tasks[t].cur.id, timestamp |-> tasks[t].timestamp])
    /\ tasks' = [tasks EXCEPT ![t].pc = "debit"]
    /\ UNCHANGED <<now, users, txs, resp, nextUserId, nextSession,
                   engineCalls, okRewrites, credited, replenished, users0, analysis, listing>>

\* The debit, and the response.
RewriteDebit(t) ==
    /\ tasks[t].pc = "debit"
    /\ users' = Debit(users, tasks[t].cur)
    /\ okRewrites' = [okRewrites EXCEPT ![tasks[t].cur.id] = @ + 1]
    /\ Finish(t, Response("rewrite", HttpOk, tasks[t].cur.id))
    /\ UNCHANGED <<now, history, txs, nextUserId, nextSession,
                   engineCalls, credited, replenished, users0, analysis, listing>>

\* ------------------------------------------------------------------ usage
UsageResponse(cur) ==
    [Response("usage", HttpOk, cur.id) EXCEPT
        !.rewrites_today = cur.rewrites_today,
        !.remaining = cur.daily_limit - cur.rewrites_today,
        !.credits = cur.credits,
        !.reset_date = cur.reset_date]

\* get_current_user() reads the account; get_usage() compares the clock.
UsageBegin(t, id) ==
    /\ CanIssue(t)
    /\ Registered(id)
    /\ LET cur == FindUser(users, id) IN
          IF ResetDue(cur, now)
          THEN /\ tasks' = [tasks EXCEPT ![t] = [NewTask EXCEPT
                                !.pc = "usage_reset", !.cur = cur,
                                !.reset_date = NextResetDate(now)]]
               /\ UNCHANGED resp
          ELSE Finish(t, UsageResponse(cur))
    /\ UNCHANGED <<now, users, history, txs, nextUserId, nextSession,
                   engineCalls, okRewrites, credited, replenished, users0, analysis, listing>>

\* get_usage(): the reset is stored, and the response composed.
UsageReset(t) ==
    /\ tasks[t].pc = "usage_reset"
    /\ users' = SetReset(users, tasks[t].cur.id, tasks[t].reset_date)
    /\ replenished' = [replenished EXCEPT ![tasks[t].cur.id] = TRUE]
    /\ Finish(t, UsageResponse([tasks[t].cur EXCEPT
                                   !.rewrites_today = 0,
                                   !.reset_date = tasks[t].reset_date]))
    /\ UNCHANGED <<now, history, txs, nextUserId, nextSession,
                   engineCalls, okRewrites, credited, users0, analysis, listing>>

\* ------------------------------------------------------------------ login
LoginResponse(user) ==
    [Response("login", HttpOk, user.id) EXCEPT
        !.rewrites_today = user.rewrites_today,
        !.credits = user.credits,
        !.reset_date = user.reset_date]

\* login(): the account is looked up by email, the password verified and
\* the clock compared.
LoginBegin(t, email, passwordOk) ==
    /\ CanIssue(t)
    /\ LET user == FindUserByEmail(users, email) IN
          IF user = NoUser \/ ~passwordOk
          THEN Finish(t, Response("login", HttpUnauthorized, 0))
          ELSE IF ResetDue(user, now)
          THEN /\ tasks' = [tasks EXCEPT ![t] = [NewTask EXCEPT
                                !.pc = "login_reset", !.cur = user,
                                !.reset_date = NextResetDate(now)]]
               /\ UNCHANGED resp
          ELSE Finish(t, LoginResponse(user))
    /\ UNCHANGED <<now, users, history, txs, nextUserId, nextSession,
                   engineCalls, okRewrites, credited, replenished, users0, analysis, listing>>

\* login(): the reset is stored, and the response composed.
LoginReset(t) ==
    /\ tasks[t].pc = "login_reset"
    /\ users' = SetReset(users, tasks[t].cur.id, tasks[t].reset_date)
    /\ replenished' = [replenished EXCEPT ![tasks[t].cur.id] = TRUE]
    /\ Finish(t, LoginResponse([tasks[t].cur EXCEPT
                                   !.rewrites_today = 0,
                                   !.reset_date = tasks[t].reset_date]))
    /\ UNCHANGED <<now, history, txs, nextUserId, nextSession,
                   engineCalls, okRewrites, credited, users0, analysis, listing>>

\* --------------------------------------------------------------- register
\* register(): the email is looked up; the account id and the reset_date
\* are computed.
RegisterBegin(t, email) ==
    /\ CanIssue(t)
    /\ IF FindUserByEmail(users, email) # NoUser
       THEN /\ Finish(t, Response("register", HttpBadRequest, 0))
            /\ UNCHANGED nextUserId
       ELSE /\ nextUserId <= MaxUsers
            /\ tasks' = [tasks EXCEPT ![t] = [NewTask EXCEPT
                             !.pc = "reg_count", !.email = email,
                             !.cur = [NoUser EXCEPT !.id = nextUserId],
                             !.reset_date = NextResetDate(now)]]
            /\ nextUserId' = nextUserId + 1
            /\ UNCHANGED resp
    /\ UNCHANGED <<now, users, history, txs, nextSession,
                   engineCalls, okRewrites, credited, replenished, users0, analysis, listing>>

\* register(): db.users.count_documents({}) decides is_admin.
RegisterCount(t) ==
    /\ tasks[t].pc = "reg_count"
    /\ tasks' = [tasks EXCEPT ![t].pc = "reg_insert", ![t].is_admin = (Len(users) = 0)]
    /\ UNCHANGED <<now, users, history, txs, resp, nextUserId, nextSession,
                   engineCalls, okRewrites, credited, replenished, users0, analysis, listing>>

\* register(): the account document
UserDoc(task) ==
    [id |-> task.cur.id, email |-> task.email, daily_limit |-> DailyLimit,
     rewrites_today |-> 0, credits |-> 0, reset_date |-> task.reset_date,
     is_admin |-> task.is_admin]

\* register(): db.users.insert_one(user_doc), and the response.
RegisterInsert(t) ==
    /\ tasks[t].pc = "reg_insert"
    /\ users' = Append(users, UserDoc(tasks[t]))
    /\ Finish(t, [Response("register", HttpOk, tasks[t].cur.id) EXCEPT
                     !.reset_date = tasks[t].reset_date])
    /\ UNCHANGED <<now, history, txs, nextUserId, nextSession,
                   engineCalls, okRewrites, credited, replenished, users0, analysis, listing>>

\* --------------------------------------------------------------- payments
\* db.payment_transactions.find_one({"session_id": sid, "user_id": id})
FindTx(ts, sid, id) ==
    IF \E i \in 1..Len(ts) : ts[i].session_id = sid /\ ts[i].user_id = id
    THEN ts[CHOOSE i \in 1..Len(ts) :
                /\ ts[i].session_id = sid /\ ts[i].user_id = id
                /\ \A j \in 1..(i - 1) : ~(ts[j].session_id = sid /\ ts[j].user_id = id)]
    ELSE NoTx

\* db.payment_transactions.update_one({"session_id": sid},
\*                                    {"$set": {"payment_status": st}})
SetPaymentStatus(ts, sid, st) ==
    [i \in 1..Len(ts) |->
        IF ts[i].session_id = sid /\ \A j \in 1..(i - 1) : ts[j].session_id # sid
        THEN [ts[i] EXCEPT !.payment_status = st]
        ELSE ts[i]]

\* purchase_credits(): the package is checked and a checkout session asked for.
PurchaseBegin(t, id, package) ==
    /\ CanIssue(t)
    /\ Registered(id)
    /\ IF package \notin CreditPackages
       THEN Finish(t, Response("purchase", HttpBadRequest, id))
       ELSE /\ nextSession <= MaxTx
            /\ tasks' = [tasks EXCEPT ![t] = [NewTask EXCEPT
                             !.pc = "checkout", !.cur = FindUser(users, id)]]
            /\ UNCHANGED resp
    /\ UNCHANGED <<now, users, history, txs, nextUserId, nextSession,
                   engineCalls, okRewrites, credited, replenished, users0, analysis, listing>>

\* purchase_credits(): the payment collaborator returns the session; the
\* transaction document is built.
PurchaseSession(t) ==
    /\ tasks[t].pc = "checkout"
    /\ nextSession <= MaxTx
    /\ tasks' = [tasks EXCEPT ![t].pc = "tx_insert",
                              ![t].tx = [session_id |-> nextSession,
                                         user_id |-> tasks[t].cur.id,
                                         credits |-> PackageCredits,
                                         payment_status |-> "pending"]]
    /\ nextSession' = nextSession + 1
    /\ UNCHANGED <<now, users, history, txs, resp, nextUserId,
                   engineCalls, okRewrites, credited, replenished, users0, analysis, listing>>

\* purchase_credits(): the payment collaborator fails.
PurchaseSessionFail(t) ==
    /\ tasks[t].pc = "checkout"
    /\ Finish(t, Response("purchase", HttpServerError, tasks[t].cur.id))
    /\ UNCHANGED <<now, users, history, txs, nextUserId, nextSession,
                   engineCalls, okRewrites, credited, replenished, users0, analysis, listing>>

\* purchase_credits(): db.payment_transactions.insert_one(transaction_doc)
PurchaseInsert(t) ==
    /\ tasks[t].pc = "tx_insert"
    /\ txs' = Append(txs, tasks[t].tx)
    /\ Finish(t, Response("purchase", HttpOk, tasks[t].cur.id))
    /\ UNCHANGED <<now, users, history, nextUserId, nextSession,
                   engineCalls, okRewrites, credited, replenished, users0, analysis, listing>>

\* Faulty variant: a transaction already paid is asked of the payment
\* collaborator again.
PayStatusBegin_NoPaidCheck(t, id, sid) ==
    /\ CanIssue(t)
    /\ Registered(id)
    /\ LET transaction == FindTx(txs, sid, id) IN
          IF transaction = NoTx
          THEN Finish(t, Response("payment_status", HttpNotFound, id))
          ELSE /\ tasks' = [tasks EXCEPT ![t] = [NewTask EXCEPT
                                !.pc = "stripe", !.cur = FindUser(users, id),
                                !.tx = transaction]]
               /\ UNCHANGED resp
    /\ UNCHANGED <<now, users, history, txs, nextUserId, nextSession,
                   engineCalls, okRewrites, credited, replenished, users0, analysis, listing>>

\* get_payment_status(): the transaction is looked up; one already paid is
\* answered at once, any other is asked of the payment collaborator.
PayStatusBegin(t, id, sid) ==
    /\ CanIssue(t)
    /\ Registered(id)
    /\ LET transaction == FindTx(txs, sid, id) IN
          IF transaction = NoTx
          THEN Finish(t, Response("payment_status", HttpNotFound, id))
          ELSE IF transaction.payment_status = "paid"
          THEN Finish(t, [Response("payment_status", HttpOk, id) EXCEPT
                             !.status = "completed"])
          ELSE /\ tasks' = [tasks EXCEPT ![t] = [NewTask EXCEPT
                                !.pc = "stripe", !.cur = FindUser(users, id),
                                !.tx = transaction]]
               /\ UNCHANGED resp
    /\ UNCHANGED <<now, users, history, txs, nextUserId, nextSession,
                   engineCalls, okRewrites, credited, replenished, users0, analysis, listing>>

\* get_payment_status(): get_checkout_status() returns.
PayStatusStripe(t, st) ==
    /\ tasks[t].pc = "stripe"
    /\ tasks' = [tasks EXCEPT ![t].pc = "tx_update", ![t].status = st]
    /\ UNCHANGED <<now, users, history, txs, resp, nextUserId, nextSession,
                   engineCalls, okRewrites, credited, replenished, users0, analysis, listing>>

\* get_payment_status(): the credits are due
CreditsDue(status, transaction) == status = "paid" /\ transaction.payment_status # "paid"

\* get_payment_status(): the transaction's status is stored.
PayStatusTxUpdate(t) ==
    /\ tasks[t].pc = "tx_update"
    /\ txs' = SetPaymentStatus(txs, tasks[t].tx.session_id, tasks[t].status)
    /\ IF CreditsDue(tasks[t].status, tasks[t].tx)
       THEN /\ tasks' = [tasks EXCEPT ![t].pc = "credit"]
            /\ UNCHANGED resp
       ELSE Finish(t, [Response("payment_status", HttpOk, tasks[t].cur.id) EXCEPT
                          !.status = tasks[t].status])
    /\ UNCHANGED <<now, users, history, nextUserId, nextSession,
                   engineCalls, okRewrites, credited, replenished, users0, analysis, listing>>

\* get_payment_status(): the credits are added.
PayStatusCredit(t) ==
    /\ tasks[t].pc = "credit"
    /\ users' = IncCredits(users, tasks[t].cur.id, tasks[t].tx.credits)
    /\ credited' = [credited EXCEPT ![tasks[t].tx.session_id] = @ + tasks[t].tx.credits]
    /\ replenished' = [replenished EXCEPT ![tasks[t].cur.id] = TRUE]
    /\ Finish(t, [Response("payment_status", HttpOk, tasks[t].cur.id) EXCEPT
                     !.status = "completed", !.credits_added = tasks[t].tx.credits])
    /\ UNCHANGED <<now, history, txs, nextUserId, nextSession,
                   engineCalls, okRewrites, users0, analysis, listing>>

\* get_payment_status(): an await inside the try block raises.
PayStatusError(t) ==
    /\ tasks[t].pc \in {"stripe", "tx_update", "credit"}
    /\ Finish(t, Response("payment_status", HttpServerError, tasks[t].cur.id))
    /\ UNCHANGED <<now, users, history, txs, nextUserId, nextSession,
                   engineCalls, okRewrites, credited, replenished, users0, analysis, listing>>

\* ---------------------------------------------------------------- webhook
\* stripe_webhook(): the request arrives; its body is awaited.
WebhookBegin(t) ==
    /\ CanIssue(t)
    /\ tasks' = [tasks EXCEPT ![t] = [NewTask EXCEPT !.pc = "webhook_body"]]
    /\ UNCHANGED <<now, users, history, txs, resp, nextUserId, nextSession,
                   engineCalls, okRewrites, credited, replenished, users0, analysis, listing>>

\* stripe_webhook(): the body is read and handed to handle_webhook().
WebhookBody(t) ==
    /\ tasks[t].pc = "webhook_body"
    /\ tasks' = [tasks EXCEPT ![t].pc = "webhook_handle"]
    /\ UNCHANGED <<now, users, history, txs, resp, nextUserId, nextSession,
                   engineCalls, okRewrites, credited, replenished, users0, analysis, listing>>

\* stripe_webhook(): handle_webhook() returns; the event is logged.
WebhookOk(t) ==
    /\ tasks[t].pc = "webhook_handle"
    /\ Finish(t, [Response("webhook", HttpOk, 0) EXCEPT !.status = "success"])
    /\ UNCHANGED <<now, users, history, txs, nextUserId, nextSession,
                   engineCalls, okRewrites, credited, replenished, users0, analysis, listing>>

\* stripe_webhook(): an await inside the try block raises.
WebhookError(t) ==
    /\ tasks[t].pc \in {"webhook_body", "webhook_handle"}
    /\ Finish(t, Response("webhook", HttpBadRequest, 0))
    /\ UNCHANGED <<now, users, history, txs, nextUserId, nextSession,
                   engineCalls, okRewrites, credited, replenished, users0, analysis, listing>>

\* ------------------------------------------------------------------- Next
\* A request is issued.
Issue ==
    \/ \E t \in Tasks, id \in UserIds, m \in ModeInputs, o \in ToneInputs :
          RewriteBegin(t, id, m, o)
    \/ \E t \in Tasks, id \in UserIds : UsageBegin(t, id)
    \/ \E t \in Tasks, e \in Emails, ok \in BOOLEAN : LoginBegin(t, e, ok)
    \/ \E t \in Tasks, e \in Emails : RegisterBegin(t, e)
    \/ \E t \in Tasks, id \in UserIds, p \in PackageInputs : PurchaseBegin(t, id, p)
    \/ \E t \in Tasks, id \in UserIds, sid \in SessionIds : PayStatusBegin(t, id, sid)

\* A request in flight takes its next step.
Step ==
    \/ \E t \in Tasks : RewriteEngineOk(t)
    \/ \E t \in Tasks : RewriteEngineFail(t)
    \/ \E t \in Tasks : RewriteInsert(t)
    \/ \E t \in Tasks : RewriteDebit(t)
    \/ \E t \in Tasks : UsageReset(t)
    \/ \E t \in Tasks : LoginReset(t)
    \/ \E t \in Tasks : RegisterCount(t)
    \/ \E t \in Tasks : RegisterInsert(t)
    \/ \E t \in Tasks : PurchaseSession(t)
    \/ \E t \in Tasks : PurchaseSessionFail(t)
    \/ \E t \in Tasks : PurchaseInsert(t)
    \/ \E t \in Tasks, st \in StripeStatuses : PayStatusStripe(t, st)
    \/ \E t \in Tasks : PayStatusTxUpdate(t)
    \/ \E t \in Tasks : PayStatusCredit(t)
    \/ \E t \in Tasks : PayStatusError(t)

\* No request is in flight.
Quiet == \A t \in Tasks : tasks[t].pc \in {"new", "done"}

\* Requests run one at a time, and the clock runs.
Next == Tick \/ (Quiet /\ Issue) \/ Step

Spec == Init /\ [][Next]_vars

\* Requests overlap; the clock stands still while they do.
NextConc == Issue \/ Step

SpecConc == Init /\ [][NextConc]_vars

\* ---------------------------------------------------------- payments only
\* A purchase, a payment-status or a webhook request is issued.
IssuePay ==
    \/ \E t \in Tasks, id \in UserIds, p \in PackageInputs : PurchaseBegin(t, id, p)
    \/ \E t \in Tasks, id \in UserIds, sid \in SessionIds : PayStatusBegin(t, id, sid)
    \/ \E t \in Tasks : WebhookBegin(t)

StepPay ==
    \/ \E t \in Tasks : PurchaseSession(t)
    \/ \E t \in Tasks : PurchaseSessionFail(t)
    \/ \E t \in Tasks : PurchaseInsert(t)
    \/ \E t \in Tasks, st \in StripeStatuses : PayStatusStripe(t, st)
    \/ \E t \in Tasks : PayStatusTxUpdate(t)
    \/ \E t \in Tasks : PayStatusCredit(t)
    \/ \E t \in Tasks : PayStatusError(t)
    \/ \E t \in Tasks : WebhookBody(t)
    \/ \E t \in Tasks : WebhookOk(t)
    \/ \E t \in Tasks : WebhookError(t)

\* Payment requests overlap.
NextPay == IssuePay \/ StepPay

SpecPay == Init /\ [][NextPay]_vars

\* ------------------------------------------------------- the clock at large
\* The last instant of SpecClock.
ClockEnd == (ClockDays + 1) * DayLen - 1

\* Any amount of time passes.
Advance ==
    /\ now < ClockEnd
    /\ now' \in (now + 1)..ClockEnd
    /\ UNCHANGED <<users, history, txs, tasks, resp, nextUserId, nextSession,
                   engineCalls, okRewrites, credited, replenished, users0, analysis,
                   listing>>

\* A request that applies the reset rule is issued.
IssueClock ==
    \/ \E t \in Tasks, id \in UserIds : UsageBegin(t, id)
    \/ \E t \in Tasks, e \in Emails, ok \in BOOLEAN : LoginBegin(t, e, ok)

StepClock ==
    \/ \E t \in Tasks : UsageReset(t)
    \/ \E t \in Tasks : LoginReset(t)

\* get-usage and login run one at a time while days go by.
NextClock == Advance \/ (Quiet /\ IssueClock) \/ StepClock

SpecClock == Init /\ [][NextClock]_vars

\* The ledger fields the response models carry: UserResponse (login) and
\* UsageResponse (get-usage).
UserResponseModel ==
    {"id", "email", "daily_limit", "rewrites_today", "credits", "reset_date",
     "email_verified", "is_admin"}

UsageResponseModel == {"daily_limit", "rewrites_today", "remaining", "credits", "reset_date"}

\* The fields of a response of the given kind.
ResponseModel(kind) == IF kind = "usage" THEN UsageResponseModel ELSE UserResponseModel

\* ------------------------------------------------------- the empty store
\* The store as a fresh deployment has it: no accounts, no history, no
\* transactions.
InitEmpty ==
    /\ now \in {DayLen - 1, DayLen}
    /\ users = <<>>
    /\ users0 = users
    /\ history = <<>>
    /\ txs = <<>>
    /\ tasks = [t \in Tasks |-> NewTask]
    /\ resp = NoResp
    /\ nextUserId = 1
    /\ nextSession = 1
    /\ engineCalls = 0
    /\ okRewrites = [u \in UserIds |-> 0]
    /\ credited = [s \in SessionIds |-> 0]
    /\ replenished = [u \in UserIds |-> FALSE]
    /\ analysis = NoAnalysis
    /\ listing = <<>>

\* An account is registered, or logged in to.
IssueReg ==
    \/ \E t \in Tasks, e \in Emails : RegisterBegin(t, e)
    \/ \E t \in Tasks, e \in Emails, ok \in BOOLEAN : LoginBegin(t, e, ok)

StepReg ==
    \/ \E t \in Tasks : RegisterCount(t)
    \/ \E t \in Tasks : RegisterInsert(t)

\* Registrations overlap.
NextReg == IssueReg \/ StepReg

SpecReg == InitEmpty /\ [][NextReg]_vars

\* ---------------------------------------------------------------- history
\* The order of two timestamps as the store sorts them: the isoformat()
\* strings are compared, field by field from the date down.
TimestampBefore(a, b) ==
    LET x == IsoFormat(a)
        y == IsoFormat(b)
    IN  \/ x.day < y.day
        \/ x.day = y.day /\ x.sec < y.sec
        \/ x.day = y.day /\ x.sec = y.sec /\ x.usec < y.usec

\* .sort("timestamp", -1): the most recent document first; documents with
\* one timestamp stay in the order the store holds them. Each document goes
\* to the place after the documents that come before it.
SortDescending(docs) ==
    LET n == Len(docs)
        placed == {<<1 + Cardinality({j \in 1..n :
                           \/ TimestampBefore(docs[i].timestamp, docs[j].timestamp)
                           \/ j < i /\ docs[j].timestamp = docs[i].timestamp}), i>> :
                      i \in 1..n}
    IN  [r \in 1..n |-> docs[(CHOOSE p \in placed : p[1] = r)[2]]]

\* .limit(n).to_list(n)
Limit(docs, n) == SubSeq(docs, 1, Min(n, Len(docs)))

\* db.rewrite_history.find({"user_id": id})
FindHistory(hist, id) == SelectSeq(hist, LAMBDA doc : doc.user_id = id)

\* Faulty variant: the sort is ascending, so the oldest documents are kept.
HistoryQuery_Oldest(hist, id) ==
    LET docs == SortDescending(FindHistory(hist, id))
    IN  Limit([i \in 1..Len(docs) |-> docs[Len(docs) + 1 - i]], HistoryLimit)

\* get_history(): find, sort, limit
HistoryQuery(hist, id) == Limit(SortDescending(FindHistory(hist, id)), HistoryLimit)

\* get_current_user() reads the account; get_history() runs the query and
\* returns the documents.
GetHistory(t, id) ==
    /\ CanIssue(t)
    /\ Registered(id)
    /\ listing' = HistoryQuery(history, id)
    /\ Finish(t, Response("history", HttpOk, id))
    /\ UNCHANGED <<now, users, history, txs, nextUserId, nextSession,
                   engineCalls, okRewrites, credited, replenished, users0, analysis>>

\* A store after many rewrites: account 1 owns `own` history documents and
\* account 2 owns up to `others`, stored among them; the timestamps are in
\* the order of insertion, or swapped pairwise (two requests that overlapped
\* between taking the timestamp and inserting), or equal pairwise.
HistoryDoc(i, others, stamps) ==
    [user_id |-> IF i % 2 = 0 /\ i <= 2 * others THEN 2 ELSE 1,
     timestamp |-> CASE stamps = "ordered" -> i
                     [] stamps = "swapped" -> IF i % 2 = 1 THEN i + 1 ELSE i - 1
                     [] stamps = "tied" -> (i + 1) \div 2]

InitHistory ==
    /\ \E own \in 0..(HistoryLimit + MaxExtra), others \in 0..MaxOthers,
          stamps \in {"ordered", "swapped", "tied"} :
          /\ history = [i \in 1..(own + others) |-> HistoryDoc(i, others, stamps)]
          /\ now = own + others + 2
    /\ users = <<InitAccount(DailyLimit - MaxInitLeft, 0),
                 [InitAccount(0, 0) EXCEPT !.id = 2, !.email = "b@x", !.is_admin = FALSE]>>
    /\ users0 = users
    /\ txs = <<InitTx>>
    /\ tasks = [t \in Tasks |-> NewTask]
    /\ resp = NoResp
    /\ nextUserId = 3
    /\ nextSession = 2
    /\ engineCalls = Len(history)
    /\ okRewrites = [u \in UserIds |-> Cardinality(HistoryOf(u))]
    /\ credited = [s \in SessionIds |-> 0]
    /\ replenished = [u \in UserIds |-> TRUE]
    /\ analysis = NoAnalysis
    /\ listing = <<>>

NextHistory == \E t \in Tasks, id \in UserIds : GetHistory(t, id)

SpecHistory == InitHistory /\ [][NextHistory]_vars

\* ------------------------------------------------------------------- texts
\* A text is a sequence of characters: a letter in either case, another
\* letter, a blank and a full stop.
Chars == {"a", "A", "b", " ", "."}
Texts == UNION {[1..n -> Chars] : n \in 0..MaxTextLen}

\* str.lower()
Lower(s) == [i \in 1..Len(s) |-> IF s[i] = "A" THEN "a" ELSE s[i]]

IsSpace(c) == c = " "

NonEmpty(s) == Len(s) > 0

\* str.split(sep): the pieces between the separators, empty ones included.
RECURSIVE SplitAt(_, _)
SplitAt(s, sep) ==
    IF \A i \in 1..Len(s) : s[i] # sep
    THEN <<s>>
    ELSE LET k == CHOOSE i \in 1..Len(s) : s[i] = sep /\ \A j \in 1..(i - 1) : s[j] # sep
         IN  <<SubSeq(s, 1, k - 1)>> \o SplitAt(SubSeq(s, k + 1, Len(s)), sep)

\* str.split(): the words between runs of whitespace.
Split(s) == SelectSeq(SplitAt(s, " "), NonEmpty)

\* str.strip()
Strip(s) ==
    LET inner == {i \in 1..Len(s) : ~IsSpace(s[i])} IN
    IF inner = {}
    THEN <<>>
    ELSE SubSeq(s, CHOOSE i \in inner : \A j \in inner : i <= j,
                   CHOOSE i \in inner : \A j \in inner : i >= j)

\* set(text.lower().split())
WordSet(text) == LET words == Split(Lower(text)) IN {words[i] : i \in 1..Len(words)}

\* round(num / den, 0), ties to the even neighbour.
Round(num, den) ==
    LET q == num \div den
        r == num % den
    IN  IF 2 * r < den THEN q
        ELSE IF 2 * r > den THEN q + 1
        ELSE IF q % 2 = 0 THEN q ELSE q + 1

\* Faulty variant: the words are compared in the case they were written in.
CalculatePlagiarismPercentage_CaseSensitive(original, rewritten) ==
    LET ow == Split(original)
        rw == Split(rewritten)
        original_words == {ow[i] : i \in 1..Len(ow)}
        rewritten_words == {rw[i] : i \in 1..Len(rw)}
        common_words == original_words \cap rewritten_words
        n == Cardinality(original_words)
    IN  IF original_words = {}
        THEN 0
        ELSE Round(Tenths * Percent * (n - Cardinality(common_words)), n)

\* Faulty variant: the similarity is returned, not the uniqueness.
CalculatePlagiarismPercentage_Similarity(original, rewritten) ==
    LET original_words == WordSet(original)
        common_words == original_words \cap WordSet(rewritten)
        n == Cardinality(original_words)
    IN  IF original_words = {}
        THEN 0
        ELSE Round(Tenths * Percent * Cardinality(common_words), n)

\* calculate_plagiarism_percentage(): the uniqueness in tenths of a percent,
\* round(max(0, min(100, 100 - len(common) / len(original) * 100)), 1).
CalculatePlagiarismPercentage(original, rewritten) ==
    LET original_words == WordSet(original)
        rewritten_words == WordSet(rewritten)
        common_words == original_words \cap rewritten_words
        n == Cardinality(original_words)
    IN  IF original_words = {}
        THEN 0
        ELSE Max(0, Min(Tenths * Percent,
                        Round(Tenths * Percent * (n - Cardinality(common_words)), n)))

\* [s.strip() for s in text.split('.') if s.strip()]
Sentences(text) ==
    LET parts == SplitAt(text, ".")
    IN  SelectSeq([i \in 1..Len(parts) |-> Strip(parts[i])], NonEmpty)

\* Faulty variant: the sentences are compared in the case they were written in.
SentenceChanged_CaseSensitive(original_sent, rewritten_sent) ==
    /\ NonEmpty(original_sent) /\ NonEmpty(rewritten_sent)
    /\ original_sent # rewritten_sent

\* get_changed_sentences(): the condition under which a position is recorded
SentenceChanged(original_sent, rewritten_sent) ==
    /\ NonEmpty(original_sent) /\ NonEmpty(rewritten_sent)
    /\ Lower(original_sent) # Lower(rewritten_sent)

\* get_changed_sentences(): the loop over range(max_len), from position i on
\* (positions count from 1).
RECURSIVE ChangesFrom(_, _, _)
ChangesFrom(os, rs, i) ==
    IF i > Max(Len(os), Len(rs))
    THEN <<>>
    ELSE LET original_sent == IF i <= Len(os) THEN os[i] ELSE <<>>
             rewritten_sent == IF i <= Len(rs) THEN rs[i] ELSE <<>>
         IN  (IF SentenceChanged(original_sent, rewritten_sent)
              THEN <<[original |-> original_sent, rewritten |-> rewritten_sent,
                      type |-> "changed"]>>
              ELSE <<>>) \o ChangesFrom(os, rs, i + 1)

\* get_changed_sentences()
GetChangedSentences(original, rewritten) ==
    ChangesFrom(Sentences(original), Sentences(rewritten), 1)

\* rewrite(): the request's text and the text the engine returned.
InitText ==
    /\ now = DayLen - 1
    /\ users = <<InitAccount(DailyLimit - MaxInitLeft, 0)>>
    /\ users0 = users
    /\ history = <<>>
    /\ txs = <<InitTx>>
    /\ tasks = [t \in Tasks |-> NewTask]
    /\ resp = NoResp
    /\ nextUserId = 2
    /\ nextSession = 2
    /\ engineCalls = 0
    /\ okRewrites = [u \in UserIds |-> 0]
    /\ credited = [s \in SessionIds |-> 0]
    /\ replenished = [u \in UserIds |-> FALSE]
    /\ \E original \in Texts, rewritten \in Texts :
          analysis = [NoAnalysis EXCEPT !.pc = "texts", !.original = original,
                                        !.rewritten = rewritten]
    /\ listing = <<>>

\* rewrite(): plagiarism_pct = calculate_plagiarism_percentage(...) and
\* changed_sentences = get_changed_sentences(...), with no await between.
AnalyseText ==
    /\ analysis.pc = "texts"
    /\ analysis' = [analysis EXCEPT
                       !.pc = "analysed",
                       !.plagiarism = CalculatePlagiarismPercentage(analysis.original,
                                                                    analysis.rewritten),
                       !.changes = GetChangedSentences(analysis.original,
                                                       analysis.rewritten)]
    /\ UNCHANGED <<now, users, history, txs, tasks, resp, nextUserId, nextSession,
                   engineCalls, okRewrites, credited, replenished, users0, listing>>

NextText == AnalyseText

SpecText == InitText /\ [][NextText]_vars

\* ------------------------------------------------------------------ claims
\* The allowed request values, as the interface documents them.
AllowedModes == {"light", "standard", "aggressive", "human-like"}
AllowedTones == {"academic", "professional", "casual", "creative", "formal"}

\* Request t, not yet issued, is a submit-rewrite in this step: it goes on to
\* the engine call or is answered at once.
RewriteBegan(t) ==
    \/ tasks'[t].pc = "ai"
    \/ tasks'[t].pc = "done" /\ resp'.kind = "rewrite"

\* The account that request is made for.
RewriteBeganBy(t) == IF tasks'[t].pc = "ai" THEN tasks'[t].cur.id ELSE resp'.user

\* C1: submit-rewrite is denied with quota-exceeded exactly when
\* (daily_limit - rewrites_today) + credits <= 0 for the account as read at
\* the start of the request; a denied request calls no engine, inserts no
\* history record and leaves the accounts unchanged.
C1_QuotaGate ==
    [][\A t \in Tasks, id \in UserIds :
          LET cur == FindUser(users, id)
              began ==
                  /\ tasks[t].pc = "new"
                  /\ \/ tasks'[t].pc = "ai" /\ tasks'[t].cur.id = id
                     \/ tasks'[t].pc = "done" /\ resp'.kind = "rewrite" /\ resp'.user = id
              denied == tasks'[t].pc = "done" /\ resp'.code = HttpTooManyRequests
          IN  began =>
                 /\ denied <=> (cur.daily_limit - cur.rewrites_today) + cur.credits <= 0
                 /\ denied => /\ engineCalls' = engineCalls
                              /\ history' = history
                              /\ users' = users]_vars

\* C1: a rewrite has been denied for an account with nothing available.
C1_Witness ==
    /\ resp.kind = "rewrite" /\ resp.code = HttpTooManyRequests
    /\ FindUser(users, resp.user).rewrites_today = DailyLimit
    /\ FindUser(users, resp.user).credits = 0
    /\ engineCalls = 0 /\ history = <<>> /\ users = users0

\* C2: for an account that starts with rewrites_today = daily_limit and k
\* credits, with requests run one at a time and no reset or top-up: a valid
\* submission is admitted while fewer than k have succeeded and denied with
\* quota-exceeded once k have; each success takes exactly one credit and
\* leaves rewrites_today alone, so credits = k - (number of successes).
C2_CreditsThenDenied ==
    [][\A id \in UserIds :
          LET u0 == FindUser(users0, id)
              before == FindUser(users, id)
              after == FindUser(users', id)
          IN  (u0 # NoUser /\ u0.rewrites_today = u0.daily_limit /\ ~replenished'[id]) =>
                 /\ after.rewrites_today = u0.daily_limit
                 /\ after.credits = u0.credits - okRewrites'[id]
                 /\ \A t \in Tasks, m \in AllowedModes, o \in AllowedTones :
                       RewriteBegin(t, id, m, o) =>
                          IF okRewrites[id] < u0.credits
                          THEN tasks'[t].pc = "ai"
                          ELSE tasks'[t].pc = "done" /\ resp'.code = HttpTooManyRequests
                 /\ \A t \in Tasks :
                       (tasks[t].pc = "debit" /\ tasks[t].cur.id = id /\ tasks'[t].pc = "done") =>
                          /\ resp'.code = HttpOk
                          /\ after.credits = before.credits - 1
                          /\ after.rewrites_today = before.rewrites_today]_vars

\* C2: an account that started with an exhausted quota and one credit has had
\* one rewrite succeed and the next one denied.
C2_Witness ==
    /\ FindUser(users0, 1).rewrites_today = DailyLimit
    /\ FindUser(users0, 1).credits = 1
    /\ ~replenished[1]
    /\ okRewrites[1] = 1
    /\ FindUser(users, 1).credits = 0
    /\ resp.kind = "rewrite" /\ resp.code = HttpTooManyRequests /\ resp.user = 1

\* C3: with requests run one at a time, a successful submit-rewrite on an
\* account with rewrites_today < daily_limit adds 1 to rewrites_today and
\* leaves credits; on one with rewrites_today >= daily_limit it takes 1 from
\* credits and leaves rewrites_today; daily_limit and reset_date are left.
C3_DebitBucketOrder ==
    [][\A t \in Tasks :
          (tasks[t].pc = "debit" /\ tasks'[t].pc = "done") =>
             LET before == FindUser(users, tasks[t].cur.id)
                 after == FindUser(users', tasks[t].cur.id)
             IN  /\ resp'.kind = "rewrite" /\ resp'.code = HttpOk
                 /\ before.rewrites_today < before.daily_limit =>
                       /\ after.rewrites_today = before.rewrites_today + 1
                       /\ after.credits = before.credits
                 /\ before.rewrites_today >= before.daily_limit =>
                       /\ after.credits = before.credits - 1
                       /\ after.rewrites_today = before.rewrites_today
                 /\ after.daily_limit = before.daily_limit
                 /\ after.reset_date = before.reset_date]_vars

\* C3: from rewrites_today = daily_limit - 1 with credits, one rewrite has
\* filled the quota and the next has taken one credit.
C3_Witness ==
    /\ FindUser(users0, 1).rewrites_today = DailyLimit - 1
    /\ FindUser(users0, 1).credits > 0
    /\ ~replenished[1]
    /\ okRewrites[1] = 2
    /\ FindUser(users, 1).rewrites_today = DailyLimit
    /\ FindUser(users, 1).credits = FindUser(users0, 1).credits - 1

\* C4: with requests run one at a time, a submit-rewrite whose engine call
\* fails returns the upstream-dependency outcome, and from the request's
\* start to its end the history records and the accounts do not change: the
\* stored account is the one the request read.
C4_EngineFailureNoEffect ==
    [][\A t \in Tasks :
          /\ (tasks[t].pc = "new" /\ tasks'[t].pc = "ai") =>
                history' = history /\ users' = users
          /\ tasks[t].pc = "ai" =>
                /\ history' = history /\ users' = users
                /\ tasks'[t].pc = "done" =>
                      /\ resp'.kind = "rewrite" /\ resp'.code = HttpServerError
                      /\ FindUser(users', tasks[t].cur.id) = tasks[t].cur]_vars

\* C4: a rewrite has failed in the engine, after the engine was called.
C4_Witness ==
    /\ resp.kind = "rewrite" /\ resp.code = HttpServerError
    /\ engineCalls = 1 /\ history = <<>> /\ users = users0

\* C5: submit-rewrite applies the reset rule first: at now >= reset_date an
\* account with rewrites_today = daily_limit and credits = 0 is admitted, and
\* one with rewrites_today = daily_limit and credits > 0 keeps its credits
\* when the rewrite succeeds.
C5_ResetBeforeAvailability ==
    [][\A t \in Tasks, id \in UserIds :
          LET cur == FindUser(users, id)
              after == FindUser(users', id)
          IN  (cur # NoUser /\ now >= FromIsoFormat(cur.reset_date)
                 /\ cur.rewrites_today = cur.daily_limit) =>
                 /\ \A m \in AllowedModes, o \in AllowedTones :
                       (RewriteBegin(t, id, m, o) /\ cur.credits = 0) => tasks'[t].pc = "ai"
                 /\ (tasks[t].pc = "debit" /\ tasks[t].cur.id = id /\ tasks'[t].pc = "done"
                       /\ cur.credits > 0) => after.credits = cur.credits]_vars

\* C6: under every interleaving of get-payment-status requests, the credits
\* added on behalf of a transaction are at most the transaction's credits.
C6_CreditedAtMostOnce ==
    \A i \in 1..Len(txs) : credited[txs[i].session_id] <= txs[i].credits

\* C7: with requests run one at a time, get-payment-status on a transaction
\* stored as paid answers completed at once, without asking the payment
\* collaborator, and changes neither accounts nor transactions; the credits
\* added on behalf of a transaction never exceed its credits, and a call that
\* returns having added credits has added exactly the transaction's credits.
C7_PaidIsIdempotent ==
    [][/\ \A t \in Tasks, id \in UserIds, sid \in SessionIds :
             (PayStatusBegin(t, id, sid) /\ FindTx(txs, sid, id).payment_status = "paid") =>
                /\ tasks'[t].pc = "done"
                /\ resp'.code = HttpOk /\ resp'.status = "completed"
                /\ resp'.credits_added = 0
                /\ users' = users /\ txs' = txs /\ credited' = credited
       /\ \A i \in 1..Len(txs') : credited'[txs'[i].session_id] <= txs'[i].credits
       /\ \A t \in Tasks :
             (tasks[t].pc = "credit" /\ tasks'[t].pc = "done" /\ resp'.code = HttpOk) =>
                /\ resp'.credits_added = tasks[t].tx.credits
                /\ credited'[tasks[t].tx.session_id] = tasks[t].tx.credits
                /\ FindUser(users', tasks[t].cur.id).credits =
                      FindUser(users, tasks[t].cur.id).credits + tasks[t].tx.credits]_vars

\* C7: a first call has added the credits and a second call on the paid
\* transaction has answered completed; the account holds the package once.
C7_Witness ==
    /\ credited[1] = PackageCredits
    /\ FindTx(txs, 1, 1).payment_status = "paid"
    /\ resp.kind = "payment_status" /\ resp.status = "completed" /\ resp.credits_added = 0
    /\ FindUser(users, 1).credits = FindUser(users0, 1).credits + PackageCredits

\* C8: when requests overlap, an account that started with exactly one
\* rewrite available and saw no reset or top-up can have two rewrites return
\* a result; whenever it has, both called the engine, both inserted a
\* history record, and the account is overdrawn: rewrites_today > daily_limit
\* or credits < 0.
C8_RaceOverdraws ==
    \A id \in UserIds :
       LET u0 == FindUser(users0, id)
           u == FindUser(users, id)
       IN  (/\ u0 # NoUser
            /\ (u0.daily_limit - u0.rewrites_today) + u0.credits = 1
            /\ ~replenished[id]
            /\ okRewrites[id] >= 2) =>
              /\ u.rewrites_today > u.daily_limit \/ u.credits < 0
              /\ engineCalls >= 2
              /\ Cardinality(HistoryOf(id)) >= 2

\* C8: two overlapping rewrites of an account with one rewrite available
\* have both returned a result.
C8_Witness ==
    /\ (DailyLimit - FindUser(users0, 1).rewrites_today) + FindUser(users0, 1).credits = 1
    /\ ~replenished[1]
    /\ okRewrites[1] = 2
    /\ engineCalls = 2
    /\ Cardinality(HistoryOf(1)) = 2
    /\ \/ FindUser(users, 1).rewrites_today > DailyLimit
       \/ FindUser(users, 1).credits < 0

\* C9: with requests run one at a time, every account always has
\* 0 <= rewrites_today <= daily_limit and credits >= 0.
C9_LedgerInRange ==
    \A i \in 1..Len(users) :
       /\ 0 <= users[i].rewrites_today
       /\ users[i].rewrites_today <= users[i].daily_limit
       /\ users[i].credits >= 0

\* C9: two rewrites in a row have used the last quota unit and the last
\* credit, leaving the account exactly on both bounds.
C9_Witness ==
    /\ okRewrites[1] = 2
    /\ FindUser(users, 1).rewrites_today = DailyLimit
    /\ FindUser(users, 1).credits = 0
    /\ resp.kind = "rewrite" /\ resp.code = HttpOk

\* C10 (as stated): a submit-rewrite whose mode or tone is not allowed fails
\* with invalid-argument whatever the account's quota and credits, and calls
\* no engine, inserts no history record and debits nothing.
C10_InvalidAlwaysBadRequest ==
    [][\A t \in Tasks :
          (tasks[t].pc = "new" /\ RewriteBegan(t)) =>
             \A id \in {RewriteBeganBy(t)}, m \in ModeInputs, o \in ToneInputs :
                ((m \notin AllowedModes \/ o \notin AllowedTones)
                    /\ RewriteBegin(t, id, m, o)) =>
                   /\ tasks'[t].pc = "done"
                   /\ resp'.code = HttpBadRequest
                   /\ engineCalls' = engineCalls /\ history' = history
                   /\ users' = users]_vars

\* C10 (amended): a submit-rewrite whose mode or tone is not allowed fails
\* with invalid-argument when the account has a rewrite available, and with
\* quota-exceeded when it has none; either way it calls no engine, inserts no
\* history record and debits nothing.
C10_InvalidRejected ==
    [][\A t \in Tasks :
          (tasks[t].pc = "new" /\ RewriteBegan(t)) =>
             \A id \in {RewriteBeganBy(t)}, m \in ModeInputs, o \in ToneInputs :
                ((m \notin AllowedModes \/ o \notin AllowedTones)
                    /\ RewriteBegin(t, id, m, o)) =>
                   LET cur == FindUser(users, id) IN
                   /\ tasks'[t].pc = "done"
                   /\ resp'.code =
                         IF (cur.daily_limit - cur.rewrites_today) + cur.credits > 0
                         THEN HttpBadRequest ELSE HttpTooManyRequests
                   /\ engineCalls' = engineCalls /\ history' = history
                   /\ users' = users]_vars

\* C10: a rewrite has been refused as an invalid argument.
C10_Witness ==
    /\ resp.kind = "rewrite" /\ resp.code = HttpBadRequest
    /\ FindUser(users, resp.user).rewrites_today < DailyLimit
    /\ engineCalls = 0 /\ history = <<>> /\ users = users0

\* Request t, not yet issued, is in this step a get-usage of account id or a
\* login to it: the reset is staged or the response returned.
LedgerReadBegan(t, id) ==
    /\ tasks[t].pc = "new"
    /\ \/ tasks'[t].pc \in {"usage_reset", "login_reset"} /\ tasks'[t].cur.id = id
       \/ /\ tasks'[t].pc = "done"
          /\ resp'.kind \in {"usage", "login"} /\ resp'.code = HttpOk /\ resp'.user = id

\* Request t stores its staged reset in this step.
ResetStored(t) ==
    tasks[t].pc \in {"usage_reset", "login_reset"} /\ tasks'[t].pc = "done"

\* C11: the reset rule is idempotent at a fixed instant: a reset stored at
\* the instant it was computed for leaves rewrites_today = 0 and a reset_date
\* strictly after now, and a get-usage or login that finds the account as a
\* reset at this instant leaves it stores nothing and reports those values.
C11_ResetIdempotent ==
    [][\A t \in Tasks :
          /\ (ResetStored(t) /\ tasks[t].reset_date = NextResetDate(now)) =>
                LET after == FindUser(users', tasks[t].cur.id) IN
                /\ after.rewrites_today = 0
                /\ after.reset_date = tasks[t].reset_date
                /\ FromIsoFormat(after.reset_date) > now'
          /\ \A id \in UserIds :
                LET u == FindUser(users, id) IN
                (/\ LedgerReadBegan(t, id)
                 /\ u.rewrites_today = 0
                 /\ u.reset_date = NextResetDate(now)) =>
                   /\ tasks'[t].pc = "done"
                   /\ users' = users
                   /\ resp'.rewrites_today = 0
                   /\ resp'.reset_date = u.reset_date]_vars

\* C11: a first request has reset the account, and a second one, at an
\* instant with the same next reset date, has answered with the stored
\* values.
C11_Witness ==
    /\ \A t \in Tasks : tasks[t].pc = "done"
    /\ replenished[1]
    /\ FindUser(users, 1).rewrites_today = 0
    /\ FindUser(users, 1).reset_date = NextResetDate(now)
    /\ resp.kind = "usage" /\ resp.code = HttpOk
    /\ resp.rewrites_today = 0 /\ resp.reset_date = NextResetDate(now)

\* The first midnight boundary strictly after instant t.
MidnightAfter(t) == IsoFormat((t \div DayLen + 1) * DayLen)

\* C12: when get-usage or login finds now >= reset_date, the reset sets
\* rewrites_today to 0 and reset_date to the first midnight boundary strictly
\* after now, computed from now only, whatever the old reset_date and however
\* many days were missed; when now < reset_date neither field changes; the
\* reset leaves credits and daily_limit as they are.
C12_ResetToMidnight ==
    [][\A t \in Tasks, id \in UserIds :
          LET u == FindUser(users, id)
              after == FindUser(users', id)
          IN  /\ LedgerReadBegan(t, id) =>
                    /\ users' = users
                    /\ IF now >= FromIsoFormat(u.reset_date)
                       THEN /\ tasks'[t].pc \in {"usage_reset", "login_reset"}
                            /\ tasks'[t].reset_date = MidnightAfter(now)
                       ELSE tasks'[t].pc = "done"
              /\ (ResetStored(t) /\ tasks[t].cur.id = id) =>
                    /\ after.rewrites_today = 0
                    /\ after.reset_date = tasks[t].reset_date
                    /\ after.credits = u.credits
                    /\ after.daily_limit = u.daily_limit]_vars

\* A text with its letters in lower case.
FoldCase(s) == [k \in 1..Len(s) |-> IF s[k] = "A" THEN "a" ELSE s[k]]

\* The lower-cased words of a text: its maximal runs of characters other
\* than blanks.
WordsOf(text) ==
    LET s == FoldCase(text)
        runs == {ij \in (1..Len(s)) \X (1..Len(s)) :
                    /\ ij[1] <= ij[2]
                    /\ \A k \in ij[1]..ij[2] : s[k] # " "
                    /\ \A k \in {ij[1] - 1} \cap (1..Len(s)) : s[k] = " "
                    /\ \A k \in {ij[2] + 1} \cap (1..Len(s)) : s[k] = " "}
    IN  {SubSeq(s, ij[1], ij[2]) : ij \in runs}

\* The scorer and the sentence diff have run.
Analysed == analysis.pc = "analysed"

C14_DisjointIsFull ==
    (Analysed /\ WordsOf(analysis.original) \cap WordsOf(analysis.rewritten) = {}) =>
       analysis.plagiarism = Tenths * Percent

\* C14 (amended): for every pair of texts whose lower-cased word sets share
\* no word and whose original has at least one word, the uniqueness score is
\* 100.0; an original without words scores 0.0 whatever the rewritten text.
C14_DisjointNonEmptyIsFull ==
    Analysed =>
       LET ow == WordsOf(analysis.original) IN
       IF ow = {}
       THEN analysis.plagiarism = 0
       ELSE ow \cap WordsOf(analysis.rewritten) = {} =>
               analysis.plagiarism = Tenths * Percent

\* C14: two texts with words, none in common, have been scored 100.0.
C14_Witness ==
    /\ Analysed
    /\ WordsOf(analysis.original) # {} /\ WordsOf(analysis.rewritten) # {}
    /\ WordsOf(analysis.original) \cap WordsOf(analysis.rewritten) = {}
    /\ analysis.plagiarism = Tenths * Percent

\* The trimmed non-empty fragments of a text between full stops, as pairs of
\* positions: the first and the last character of each that is not a blank.
Pieces(text) ==
    LET stops == {0, Len(text) + 1} \cup {i \in 1..Len(text) : text[i] = "."}
        inked == {i \in 1..Len(text) : text[i] # "." /\ text[i] # " "}
    IN  {lh \in inked \X inked :
            /\ lh[1] <= lh[2]
            /\ \A k \in stops : ~(lh[1] < k /\ k < lh[2])
            /\ \A k \in inked :
                  (k < lh[1] \/ k > lh[2]) =>
                     \E s \in stops : (k < s /\ s < lh[1]) \/ (lh[2] < s /\ s < k)}

\* The fragments in order: the i-th is the one with i - 1 fragments before it.
Fragments(text) ==
    LET ps == Pieces(text)
        at(i) == CHOOSE x \in ps : Cardinality({y \in ps : y[1] < x[1]}) = i - 1
    IN  [i \in 1..Cardinality(ps) |-> SubSeq(text, at(i)[1], at(i)[2])]

\* The positions at which both fragment lists have a fragment and the two
\* differ when case is ignored.
ChangedPositions(of, rf) ==
    {i \in 1..Len(of) \cap 1..Len(rf) : FoldCase(of[i]) # FoldCase(rf[i])}

\* C15: the sentence diff has one record for each position at which both
\* texts have a fragment and the fragments differ case-insensitively, and no
\* other; the records are in increasing position order, each with the two
\* fragments of its position; so there are at most as many records as the
\* shorter fragment list has fragments.
C15_ChangedPairs ==
    Analysed =>
       LET of == Fragments(analysis.original)
           rf == Fragments(analysis.rewritten)
           P == ChangedPositions(of, rf)
           out == analysis.changes
       IN  /\ Len(out) = Cardinality(P)
           /\ Len(out) <= Len(of) /\ Len(out) <= Len(rf)
           /\ \A k \in 1..Len(out) :
                 LET i == CHOOSE x \in P : Cardinality({y \in P : y < x}) = k - 1
                 IN  out[k].original = of[i] /\ out[k].rewritten = rf[i]

\* C15: of two texts with two fragments each, the first fragments differ in
\* case only and the second differ: the diff has the second pair alone.
C15_Witness ==
    /\ Analysed
    /\ Len(Fragments(analysis.original)) = 2 /\ Len(Fragments(analysis.rewritten)) = 2
    /\ Fragments(analysis.original)[1] # Fragments(analysis.rewritten)[1]
    /\ ChangedPositions(Fragments(analysis.original), Fragments(analysis.rewritten)) = {2}
    /\ Len(analysis.changes) = 1
    /\ analysis.changes[1].original = Fragments(analysis.original)[2]

C17_SingleAdmin ==
    LET admins == {i \in 1..Len(users) : users[i].is_admin}
    IN  Cardinality(admins) <= 1 /\ admins \subseteq {1}

\* C18: get-history returns only history records of the calling account,
\* most recent first, and never more than 50: all of the account's records
\* when it has at most 50, and otherwise 50 of them of which none is older
\* than a record left out.
C18_HistoryListing ==
    resp.kind = "history" =>
       LET own == HistoryOf(resp.user)
           stampsOf(seq, ts) == Cardinality({k \in 1..Len(seq) : seq[k].timestamp = ts})
           ownStamps(ts) == Cardinality({i \in own : history[i].timestamp = ts})
       IN  /\ Len(listing) <= HistoryLimit
           /\ Len(listing) = Min(HistoryLimit, Cardinality(own))
           /\ \A k \in 1..Len(listing) :
                 /\ listing[k].user_id = resp.user
                 /\ stampsOf(listing, listing[k].timestamp) <= ownStamps(listing[k].timestamp)
                 /\ k > 1 => listing[k - 1].timestamp >= listing[k].timestamp
           /\ \A i \in own :
                 stampsOf(listing, history[i].timestamp) < ownStamps(history[i].timestamp) =>
                    \A k \in 1..Len(listing) : listing[k].timestamp >= history[i].timestamp

\* C18: an account that owns more than 50 records, stored out of timestamp
\* order among records of another account, has been given its 50 most
\* recent, the latest first.
C18_Witness ==
    /\ resp.kind = "history" /\ resp.user = 1
    /\ Cardinality(HistoryOf(1)) > HistoryLimit
    /\ Cardinality(HistoryOf(2)) > 0
    /\ \E i \in 1..(Len(history) - 1) : history[i].timestamp > history[i + 1].timestamp
    /\ Len(listing) = HistoryLimit
    /\ \A i \in HistoryOf(1) : listing[1].timestamp >= history[i].timestamp
    /\ \E i \in HistoryOf(1) : history[i].timestamp < listing[HistoryLimit].timestamp

\* C19 (as stated): get-usage and login apply the reset rule before
\* composing the response and persist it: called at now >= reset_date, the
\* stored account afterwards has rewrites_today = 0 and the new reset_date,
\* and the response reports rewrites_today = 0, remaining = daily_limit and
\* that reset_date; called at now < reset_date, the stored account is
\* unchanged and the response reports the stored values, with
\* remaining = daily_limit - rewrites_today.
C19_ResetReported ==
    [][\A t \in Tasks, id \in UserIds :
          LET u == FindUser(users, id)
              after == FindUser(users', id)
          IN  /\ LedgerReadBegan(t, id) =>
                    IF now >= FromIsoFormat(u.reset_date)
                    THEN /\ tasks'[t].pc \in {"usage_reset", "login_reset"}
                         /\ tasks'[t].reset_date = NextResetDate(now)
                    ELSE /\ tasks'[t].pc = "done"
                         /\ users' = users
                         /\ resp'.rewrites_today = u.rewrites_today
                         /\ resp'.credits = u.credits
                         /\ resp'.reset_date = u.reset_date
                         /\ "remaining" \in ResponseModel(resp'.kind)
                         /\ resp'.remaining = u.daily_limit - u.rewrites_today
              /\ (ResetStored(t) /\ tasks[t].cur.id = id) =>
                    /\ after.rewrites_today = 0
                    /\ after.reset_date = tasks[t].reset_date
                    /\ resp'.rewrites_today = 0
                    /\ resp'.reset_date = after.reset_date
                    /\ "remaining" \in ResponseModel(resp'.kind)
                    /\ resp'.remaining = after.daily_limit]_vars

\* C19 (amended): as stated for the stored account and for rewrites_today
\* and reset_date in the response; remaining is reported by get-usage only
\* (daily_limit after a reset, daily_limit - rewrites_today otherwise): the
\* response of login has no remaining field.
C19_ResetReportedPerResponse ==
    [][\A t \in Tasks, id \in UserIds :
          LET u == FindUser(users, id)
              after == FindUser(users', id)
          IN  /\ LedgerReadBegan(t, id) =>
                    IF now >= FromIsoFormat(u.reset_date)
                    THEN /\ tasks'[t].pc \in {"usage_reset", "login_reset"}
                         /\ tasks'[t].reset_date = NextResetDate(now)
                    ELSE /\ tasks'[t].pc = "done"
                         /\ users' = users
                         /\ resp'.rewrites_today = u.rewrites_today
                         /\ resp'.credits = u.credits
                         /\ resp'.reset_date = u.reset_date
                         /\ IF resp'.kind = "usage"
                            THEN resp'.remaining = u.daily_limit - u.rewrites_today
                            ELSE "remaining" \notin ResponseModel(resp'.kind)
              /\ (ResetStored(t) /\ tasks[t].cur.id = id) =>
                    /\ after.rewrites_today = 0
                    /\ after.reset_date = tasks[t].reset_date
                    /\ resp'.rewrites_today = 0
                    /\ resp'.reset_date = after.reset_date
                    /\ IF resp'.kind = "usage"
                       THEN resp'.remaining = after.daily_limit
                       ELSE "remaining" \notin ResponseModel(resp'.kind)]_vars

\* C19: a get-usage after the reset_date has stored the reset and reported
\* it, with the whole daily limit remaining.
C19_Witness ==
    /\ resp.kind = "usage" /\ resp.code = HttpOk /\ resp.user = 1
    /\ Cardinality({t \in Tasks : tasks[t].pc = "done"}) = 1
    /\ FindUser(users0, 1).rewrites_today > 0
    /\ FindUser(users, 1).rewrites_today = 0
    /\ FromIsoFormat(FindUser(users, 1).reset_date)
          > FromIsoFormat(FindUser(users0, 1).reset_date)
    /\ resp.rewrites_today = 0 /\ resp.remaining = DailyLimit
    /\ resp.reset_date = FindUser(users, 1).reset_date

\* C20: under every interleaving, whenever the debit of a submit-rewrite
\* takes a credit, the stored account has rewrites_today >= daily_limit at
\* that moment, also when a reset or another rewrite of the account has
\* completed since the request read the account.
C20_QuotaFirstUnderRaces ==
    [][\A t \in Tasks :
          (tasks[t].pc = "debit" /\ tasks'[t].pc = "done") =>
             LET before == FindUser(users, tasks[t].cur.id)
                 after == FindUser(users', tasks[t].cur.id)
             IN  after.credits < before.credits =>
                    before.rewrites_today >= before.daily_limit]_vars

\* C21: a payment transaction is created with status pending, and once its
\* stored payment_status is paid no get-payment-status or webhook request,
\* later or in flight at the time, changes it to another value, whatever
\* status the payment collaborator returns.
C21_PaidIsTerminal ==
    [][/\ Len(txs') >= Len(txs)
       /\ \A i \in 1..Len(txs') :
             IF i <= Len(txs)
             THEN txs[i].payment_status = "paid" => txs'[i].payment_status = "paid"
             ELSE txs'[i].payment_status = "pending"]_vars

\* What an account has available: unused quota plus credits.
Available(u) == (u.daily_limit - u.rewrites_today) + u.credits

\* What account id had available at first: in the initial store, or else as
\* registered.
InitialAvailable(id) ==
    IF FindUser(users0, id) = NoUser THEN DailyLimit ELSE Available(FindUser(users0, id))

\* C22: under every interleaving, each debit takes exactly one unit from the
\* account it is for and nothing from any other; so for an account without
\* reset or top-up, once none of its requests is in flight, what it has
\* available is what it had at first less the number of its submit-rewrite
\* requests that returned a result.
C22_OneUnitPerDebit ==
    [][/\ \A t \in Tasks :
             (tasks[t].pc = "debit" /\ tasks'[t].pc = "done") =>
                \A i \in 1..Len(users) :
                   Available(users'[i]) =
                      IF users[i].id = tasks[t].cur.id
                      THEN Available(users[i]) - 1
                      ELSE Available(users[i])
       /\ \A i \in 1..Len(users') :
             LET id == users'[i].id IN
             (/\ ~replenished'[id]
              /\ \A t \in Tasks :
                    tasks'[t].pc \in {"new", "done"} \/ tasks'[t].cur.id # id) =>
                Available(users'[i]) = InitialAvailable(id) - okRewrites'[id]]_vars

\* C22: two overlapping rewrites of an account that had one quota unit and
\* no credits have both returned a result: the account is two units down,
\* one below nothing.
C22_Witness ==
    /\ Quiet
    /\ FindUser(users0, 1).rewrites_today = DailyLimit - 1
    /\ FindUser(users0, 1).credits = 0
    /\ ~replenished[1]
    /\ okRewrites[1] = 2
    /\ FindUser(users, 1).rewrites_today = DailyLimit + 1
    /\ Available(FindUser(users, 1)) = InitialAvailable(1) - 2

\* C23: whenever no request is in flight, every transaction stored as paid has
\* had exactly its credits added to the account that owns it, also after a
\* get-payment-status request failed between storing the status and adding
\* the credits.
C23_PaidImpliesCredited ==
    Quiet =>
       \A i \in 1..Len(txs) :
          txs[i].payment_status = "paid" => credited[txs[i].session_id] = txs[i].credits

\* C24: under every interleaving of register requests, two of them with the
\* same email at once included, the store never holds two accounts with the
\* same email.
C24_EmailsUnique ==
    \A i, j \in 1..Len(users) : users[i].email = users[j].email => i = j

====
